---- MODULE Spec2Model ----
(***************************************************************************)
(* The notebook torch/LinearClassifier.ipynb as a state machine: the data  *)
(* cell, the model and optimizer cell, the training loop and the           *)
(* evaluation cell.  float32 tensors are fixed-point integers: a value v   *)
(* is stored as v * Scale, a feature as v * XScale and a second moment as  *)
(* v * Scale^2.  Library primitives (randn, randperm, sigmoid, BCELoss,    *)
(* autograd, Adam) are computed, in that arithmetic, by what they do.      *)
(***************************************************************************)
EXTENDS Integers, Sequences, FiniteSets, TLC

\* ---------------------------------------------------------------- bounds
\* Seeds 1..NumSeeds of the default generator are explored.
NumSeeds == 2

\* Seed 81 is always explored: its trained model puts one sample exactly on
\* the decision boundary (output one half) at evaluation.
Seeds == (1..NumSeeds) \cup {81}

\* ---------------------------------------------------- program constants
NumSamples == 100
InputDim == 2
BatchSize == 32
Epochs == 100
PrintEvery == 10

\* lr = 0.01 = 1 / LrInv
LrInv == 100

\* -------------------------------------------------- fixed-point numbers
Scale == 10^4
XScale == 50
BetaOne == 10^6
Beta1 == 9 * 10^5
Beta2 == 999 * 10^3
Half == Scale \div 2

Abs(a) == IF a < 0 THEN -a ELSE a

Sgn(a) == IF a < 0 THEN -1 ELSE IF a > 0 THEN 1 ELSE 0

Max(a, c) == IF a >= c THEN a ELSE c

\* a / c rounded to nearest, halves away from zero (c > 0)
RDiv(a, c) == Sgn(a) * ((2 * Abs(a) + c) \div (2 * c))

\* <<q, r>> with a * b = q * c + r and 0 <= r < c, computed without forming
\* the product a * b (which may not fit the integer width), Radix digits of
\* b at a time; a, b >= 0 and 0 < c <= 2^20
Radix == 2^10

RECURSIVE MulDivQR(_, _, _)
MulDivQR(a, b, c) ==
  IF b = 0 THEN <<0, 0>>
  ELSE LET h == MulDivQR(a, b \div Radix, c)
           d == b % Radix
           rest == Radix * h[2] + (a % c) * d
       IN <<Radix * h[1] + (a \div c) * d + rest \div c, rest % c>>

\* a * b / c rounded to nearest, halves away from zero (c > 0)
MulDiv(a, b, c) ==
  LET qr == IF Abs(a) >= Abs(b) THEN MulDivQR(Abs(a), Abs(b), c)
                                ELSE MulDivQR(Abs(b), Abs(a), c)
      q == IF 2 * qr[2] >= c THEN qr[1] + 1 ELSE qr[1]
  IN Sgn(a) * Sgn(b) * q

\* sum of f[lo..hi], by halving
RECURSIVE SumRange(_, _, _)
SumRange(f, lo, hi) ==
  IF lo > hi THEN 0
  ELSE IF lo = hi THEN f[lo]
  ELSE LET mid == (lo + hi) \div 2
       IN SumRange(f, lo, mid) + SumRange(f, mid + 1, hi)

SumSeq(f) == SumRange(f, 1, Len(f))

\* exp(-t) for t >= 0
RECURSIVE ExpNeg(_)
ExpNeg(t) ==
  IF t >= 10 * Scale THEN 0
  ELSE IF t > Scale \div 4
       THEN RDiv(ExpNeg(t \div 2) * ExpNeg(t - t \div 2), Scale)
  ELSE LET t2 == RDiv(t * t, Scale)
           t3 == RDiv(t2 * t, Scale)
           t4 == RDiv(t3 * t, Scale)
       IN Scale - t + RDiv(t2, 2) - RDiv(t3, 6) + RDiv(t4, 24)

\* torch.sigmoid: 1 / (1 + exp(-z)), evaluated on the side that cannot overflow
Sigmoid(z) ==
  IF z >= 0 THEN RDiv(Scale * Scale, Scale + ExpNeg(z))
  ELSE LET e == ExpNeg(-z) IN RDiv(e * Scale, Scale + e)

Ln2 == 6931

\* the k with p * 2^k in [Scale, 2 * Scale), for 1 <= p <= Scale
RECURSIVE Normalise(_, _)
Normalise(p, k) == IF p >= Scale THEN <<p, k>> ELSE Normalise(2 * p, k + 1)

\* ln(p) for 0 < p <= 1
Ln(p) ==
  LET mk == Normalise(p, 0)
      u == RDiv((mk[1] - Scale) * Scale, mk[1] + Scale)
      u2 == RDiv(u * u, Scale)
      u3 == RDiv(u2 * u, Scale)
      u5 == RDiv(u3 * u2, Scale)
      u7 == RDiv(u5 * u2, Scale)
  IN 2 * (u + RDiv(u3, 3) + RDiv(u5, 5) + RDiv(u7, 7)) - mk[2] * Ln2

\* BCELoss clamps its log terms to be >= -100
ClampedLog(p) == IF p <= 0 THEN -100 * Scale ELSE Max(Ln(p), -100 * Scale)

\* floor(sqrt(n)) by bisection; lo^2 <= n < hi^2
RECURSIVE SqrtBetween(_, _, _)
SqrtBetween(n, lo, hi) ==
  IF hi - lo <= 1 THEN lo
  ELSE LET mid == (lo + hi) \div 2
       IN IF mid * mid <= n THEN SqrtBetween(n, mid, hi)
          ELSE SqrtBetween(n, lo, mid)

ISqrt(n) == SqrtBetween(n, 0, 46341)

\* beta ** t, at scale BetaOne
RECURSIVE PowFx(_, _)
PowFx(beta, t) ==
  IF t = 0 THEN BetaOne
  ELSE LET h == PowFx(beta, t \div 2)
           sq == MulDiv(h, h, BetaOne)
       IN IF t % 2 = 1 THEN MulDiv(sq, beta, BetaOne) ELSE sq

\* ------------------------------------------------- the random generator
\* The library generator is a stream of draws fixed by its seed; draw k of
\* seed s is a hash of (s, k) into 0..DrawMod-1.
DrawMod == 46337

Draw(s, k) ==
  LET a == (s * 1103 + k * 7919 + 12345) % DrawMod
      c == (a * a + k) % DrawMod
      d == (c * 75 + 74 + a) % DrawMod
  IN (d * d + c) % DrawMod

\* a draw scaled to 0..n-1
DrawBelow(s, k, n) == (Draw(s, k) * n) \div DrawMod

\* torch.randn: one standard-normal sample (sum of four uniform draws,
\* variance XScale^2), in units of 1 / XScale
Randn(s, k) ==
  DrawBelow(s, 4 * k, 87) + DrawBelow(s, 4 * k + 1, 87)
  + DrawBelow(s, 4 * k + 2, 87) + DrawBelow(s, 4 * k + 3, 87) - 4 * 43

\* nn.Linear.reset_parameters: uniform in [-1/sqrt(in_features), 1/sqrt(in_features)]
InitBound == ISqrt((Scale * Scale) \div InputDim)

InitUniform(s, k) == DrawBelow(s, k, 2 * InitBound + 1) - InitBound

\* draws consumed by the data cell and by the model cell
DataDraws == 4 * InputDim * NumSamples

ModelDraws == InputDim + 1

\* model = LinearClassifier(input_dim=2): the initial weight and bias
InitWeight(s) == [j \in 1..InputDim |-> InitUniform(s, DataDraws + j - 1)]

InitBias(s) == InitUniform(s, DataDraws + InputDim)

\* X = torch.randn(100, 2)
MakeX(s) ==
  [i \in 1..NumSamples |->
     [j \in 1..InputDim |-> Randn(s, InputDim * (i - 1) + (j - 1))]]

\* mutant: a sum of exactly 0 labelled 1
LabelNonNegative(x) == IF x[1] + x[2] >= 0 THEN 1 ELSE 0

\* (X[:, 0] + X[:, 1] > 0).float()
Label(x) == IF x[1] + x[2] > 0 THEN 1 ELSE 0

MakeY(xs) == [i \in 1..NumSamples |-> Label(xs[i])]

\* torch.randperm under the sampler's own generator: the samples sorted by
\* their draw, ties by index
\* f itself; stating f = f has the model checker tabulate f once
Eager(f) == IF f = f THEN f ELSE f

RandPerm(s) ==
  LET key == Eager([i \in 1..NumSamples |-> Draw(s, i - 1)])
      rank == Eager([i \in 1..NumSamples |->
                 1 + Cardinality({j \in 1..NumSamples :
                        \/ key[j] < key[i]
                        \/ key[j] = key[i] /\ j < i})])
  IN [r \in 1..NumSamples |-> CHOOSE i \in 1..NumSamples : rank[i] = r]

\* mutant: drop_last = True
NumBatchesDropLast == NumSamples \div BatchSize

\* len(dataloader) with drop_last = False
NumBatches == (NumSamples + BatchSize - 1) \div BatchSize

\* the k-th batch (k = 1..NumBatches) of a sampler order: sample indices
BatchOf(ord, k) ==
  LET lo == (k - 1) * BatchSize + 1
      hi == IF k * BatchSize < NumSamples THEN k * BatchSize ELSE NumSamples
  IN [n \in 1..(hi - lo + 1) |-> ord[lo + n - 1]]

\* ------------------------------------------------------------- the state
VARIABLES
  gen,           \* default generator: [seed, offset]
  X, y,          \* features (units of 1/XScale) and labels
  weight, bias,  \* model.linear.weight, model.linear.bias
  training,      \* model.training
  grad,          \* .grad of <<weight[1], weight[2], bias>>; <<>> is None
  exp_avg, exp_avg_sq, step,   \* optimizer.state
  epoch,         \* the epoch loop's position, 0-based
  order,         \* the sampler's order for this epoch
  nbatch,        \* batches of this epoch already fetched
  inputs,        \* the current batch, as sample indices
  outputs, loss, running_loss,
  console,       \* the printed lines
  predicted, accuracy,
  pc,            \* position in the notebook
  run,           \* 1 on the first execution, 2 on a re-execution
  history,       \* parameters after each optimizer step of execution 1
  first_console  \* what execution 1 printed

vars == <<gen, X, y, weight, bias, training, grad, exp_avg, exp_avg_sq, step,
          epoch, order, nbatch, inputs, outputs, loss, running_loss, console,
          predicted, accuracy, pc, run, history,
          first_console>>

Params == <<weight[1], weight[2], bias>>

\* the state after the cells up to the optimizer's have run, under seed s
Fresh(s) ==
  /\ gen = [seed |-> s, offset |-> DataDraws + ModelDraws]
  /\ X = MakeX(s)
  /\ y = MakeY(MakeX(s))
  /\ weight = InitWeight(s)
  /\ bias = InitBias(s)
  /\ training = TRUE
  /\ grad = <<>>
  /\ exp_avg = <<0, 0, 0>>
  /\ exp_avg_sq = <<0, 0, 0>>
  /\ step = 0
  /\ epoch = 0
  /\ order = <<>>
  /\ nbatch = 0
  /\ inputs = <<>>
  /\ outputs = <<>>
  /\ loss = 0
  /\ running_loss = 0
  /\ console = <<>>
  /\ predicted = <<>>
  /\ accuracy = 0
  /\ pc = "for_epoch"

Init ==
  \E s \in Seeds : Fresh(s) /\ run = 1 /\ history = <<>> /\ first_console = <<>>

\* ------------------------------------------------------------- the model
\* self.linear(x): weight . x + bias, for the sample with index i
Linear(i) ==
  RDiv(weight[1] * X[i][1] + weight[2] * X[i][2], XScale) + bias

\* mutant: forward without the sigmoid
ForwardNoSigmoid(i) == Linear(i)

\* LinearClassifier.forward on sample i
Forward(i) == Sigmoid(Linear(i))

\* nn.BCELoss (mean reduction) of the outputs of a batch against its labels
BCELoss(outs, idx) ==
  LET term == [n \in 1..Len(idx) |->
                 IF y[idx[n]] = 1 THEN ClampedLog(outs[n])
                 ELSE ClampedLog(Scale - outs[n])]
  IN RDiv(-SumSeq(term), Len(idx))

\* mutant: a backward pass that ignores the labels
DLinearIgnoresLabel(outs, idx) ==
  [n \in 1..Len(idx) |->
     IF outs[n] = 0 \/ outs[n] = Scale THEN 0 ELSE outs[n]]

\* d loss / d linear output, per sample and before the 1/n of the mean:
\* BCELoss's backward gives (p - y) / max(p (1 - p), 1e-12) and sigmoid's
\* multiplies by p (1 - p), so a saturated output passes no gradient
DLinear(outs, idx) ==
  [n \in 1..Len(idx) |->
     IF outs[n] = 0 \/ outs[n] = Scale THEN 0
     ELSE outs[n] - y[idx[n]] * Scale]

\* loss.backward(): the gradient of the batch's loss for <<weight, bias>>
Gradient(outs, idx) ==
  LET dz == DLinear(outs, idx)
      n == Len(idx)
  IN << RDiv(SumSeq([k \in 1..n |-> dz[k] * X[idx[k]][1]]), n * XScale),
        RDiv(SumSeq([k \in 1..n |-> dz[k] * X[idx[k]][2]]), n * XScale),
        RDiv(SumSeq(dz), n) >>

\* autograd accumulates into .grad
Accumulate(old, g) ==
  IF old = <<>> THEN g ELSE [k \in 1..Len(g) |-> old[k] + g[k]]

\* Adam, first moment: exp_avg * beta1 + (1 - beta1) * grad
AdamExpAvg(m, g) == RDiv(9 * m + g, 10)

\* Adam, second moment: exp_avg_sq * beta2 + (1 - beta2) * grad^2.  The
\* increment is rounded up: a nonzero gradient leaves a nonzero moment.
AdamExpAvgSq(v, g) == v - v \div 1000 + (g * g + 999) \div 1000

\* mutant: the update applied with the wrong sign (ascent)
AdamUpdateAscent(m, v, t) ==
  LET mhat == MulDiv(m, BetaOne, BetaOne - PowFx(Beta1, t))
      vhat == MulDiv(v, BetaOne, BetaOne - PowFx(Beta2, t))
      denom == ISqrt(vhat)
  IN IF denom = 0 THEN 0 ELSE -RDiv(mhat * (Scale \div LrInv), denom)

\* Adam's update of one parameter at step t:
\* lr / (1 - beta1^t) * exp_avg / (sqrt(exp_avg_sq) / sqrt(1 - beta2^t) + eps).
\* eps = 1e-8 is below the resolution; its effect, 0 / (0 + eps) = 0, is kept.
AdamUpdate(m, v, t) ==
  LET mhat == MulDiv(m, BetaOne, BetaOne - PowFx(Beta1, t))
      vhat == MulDiv(v, BetaOne, BetaOne - PowFx(Beta2, t))
      denom == ISqrt(vhat)
  IN IF denom = 0 THEN 0 ELSE RDiv(mhat * (Scale \div LrInv), denom)

\* mutant: the comparison turned round
ThresholdInverted(p) == IF p < Half THEN 1 ELSE 0

\* mutant: an output of exactly 0.5 classified 1
ThresholdInclusive(p) == IF p >= Half THEN 1 ELSE 0

\* (model(X) > 0.5).float() for sample i
Threshold(p) == IF p > Half THEN 1 ELSE 0

\* (predicted == y).float().mean()
Mean(pred) ==
  RDiv(Cardinality({i \in 1..NumSamples : pred[i] = y[i]}) * Scale, NumSamples)

\* f"{accuracy:.4f}": four decimals
Format4(a) == RDiv(a * 10^4, Scale)

\* ----------------------------------------------------- the training cell
\* mutant: a sampler seeded from outside the generator, anew on every run
SamplerSeedPerRun == Draw(gen.seed + run, gen.offset)

\* RandomSampler seeds its own generator with one draw of the default one
SamplerSeed == Draw(gen.seed, gen.offset)

\* for epoch in range(epochs): model.train(); running_loss = 0.0; and the
\* inner loop's iter(dataloader), which seeds its sampler from the generator
ForEpoch ==
  /\ pc = "for_epoch"
  /\ IF epoch < Epochs
     THEN /\ training' = TRUE
          /\ running_loss' = 0
          /\ order' = RandPerm(SamplerSeed)
          /\ gen' = [gen EXCEPT !.offset = @ + 1]
          /\ nbatch' = 0
          /\ pc' = "for_batch"
     ELSE /\ pc' = "eval"
          /\ UNCHANGED <<training, running_loss, order, gen, nbatch>>
  /\ UNCHANGED <<X, y, weight, bias, grad, exp_avg, exp_avg_sq, step, epoch,
                 inputs, outputs, loss, console, predicted, accuracy, run, history,
                 first_console>>

\* for inputs, labels in dataloader
ForBatch ==
  /\ pc = "for_batch"
  /\ IF nbatch < NumBatches
     THEN /\ inputs' = BatchOf(order, nbatch + 1)
          /\ nbatch' = nbatch + 1
          /\ pc' = "forward"
     ELSE /\ pc' = "report"
          /\ UNCHANGED <<inputs, nbatch>>
  /\ UNCHANGED <<gen, X, y, weight, bias, training, grad, exp_avg, exp_avg_sq,
                 step, epoch, order, outputs, loss, running_loss, console,
                 predicted, accuracy, run, history,
                 first_console>>

\* outputs = model(inputs)
ModelForward ==
  /\ pc = "forward"
  /\ outputs' = [n \in 1..Len(inputs) |-> Forward(inputs[n])]
  /\ pc' = "criterion"
  /\ UNCHANGED <<gen, X, y, weight, bias, training, grad, exp_avg, exp_avg_sq,
                 step, epoch, order, nbatch, inputs, loss, running_loss,
                 console, predicted, accuracy, run, history,
                 first_console>>

\* loss = criterion(outputs, labels)
Criterion ==
  /\ pc = "criterion"
  /\ loss' = BCELoss(outputs, inputs)
  /\ pc' = "zero_grad"
  /\ UNCHANGED <<gen, X, y, weight, bias, training, grad, exp_avg, exp_avg_sq,
                 step, epoch, order, nbatch, inputs, outputs, running_loss,
                 console, predicted, accuracy, run, history,
                 first_console>>

\* mutant: zero_grad() that leaves the old gradient in place
ZeroGradKeeps ==
  /\ pc = "zero_grad"
  /\ grad' = grad
  /\ pc' = "backward"
  /\ UNCHANGED <<gen, X, y, weight, bias, training, exp_avg, exp_avg_sq, step,
                 epoch, order, nbatch, inputs, outputs, loss, running_loss,
                 console, predicted, accuracy, run, history,
                 first_console>>

\* optimizer.zero_grad()
ZeroGrad ==
  /\ pc = "zero_grad"
  /\ grad' = <<>>
  /\ pc' = "backward"
  /\ UNCHANGED <<gen, X, y, weight, bias, training, exp_avg, exp_avg_sq, step,
                 epoch, order, nbatch, inputs, outputs, loss, running_loss,
                 console, predicted, accuracy, run, history,
                 first_console>>

\* loss.backward()
Backward ==
  /\ pc = "backward"
  /\ grad' = Accumulate(grad, Gradient(outputs, inputs))
  /\ pc' = "step"
  /\ UNCHANGED <<gen, X, y, weight, bias, training, exp_avg, exp_avg_sq, step,
                 epoch, order, nbatch, inputs, outputs, loss, running_loss,
                 console, predicted, accuracy, run, history,
                 first_console>>

\* optimizer.step(): parameters without a gradient are skipped
OptimizerStep ==
  /\ pc = "step"
  /\ IF grad = <<>>
     THEN UNCHANGED <<weight, bias, exp_avg, exp_avg_sq, step, history>>
     ELSE LET t == step + 1
              m == [k \in 1..3 |-> AdamExpAvg(exp_avg[k], grad[k])]
              v == [k \in 1..3 |-> AdamExpAvgSq(exp_avg_sq[k], grad[k])]
              p == [k \in 1..3 |-> Params[k] - AdamUpdate(m[k], v[k], t)]
          IN /\ step' = t
             /\ exp_avg' = m
             /\ exp_avg_sq' = v
             /\ weight' = <<p[1], p[2]>>
             /\ bias' = p[3]
             /\ history' = IF run = 1 THEN Append(history, p) ELSE history
  /\ pc' = "item"
  /\ UNCHANGED <<gen, X, y, training, grad, epoch, order, nbatch, inputs,
                 outputs, loss, running_loss, console, predicted, accuracy,
                 run, first_console>>

\* running_loss += loss.item()
AddLoss ==
  /\ pc = "item"
  /\ running_loss' = running_loss + loss
  /\ pc' = "for_batch"
  /\ UNCHANGED <<gen, X, y, weight, bias, training, grad, exp_avg, exp_avg_sq,
                 step, epoch, order, nbatch, inputs, outputs, loss, console,
                 predicted, accuracy, run, history,
                 first_console>>

\* mutant: the test made on the 0-based epoch
ReportsZeroBased(e) == e % PrintEvery = 0

\* whether the epoch (0-based) prints its loss
Reports(e) == (e + 1) % PrintEvery = 0

\* if (epoch+1) % 10 == 0: print(...), and the end of the epoch's body
Report ==
  /\ pc = "report"
  /\ console' = IF Reports(epoch)
                THEN Append(console, [kind |-> "loss", epoch |-> epoch + 1,
                                      of |-> Epochs,
                                      value |-> RDiv(running_loss, NumBatches)])
                ELSE console
  /\ epoch' = epoch + 1
  /\ pc' = "for_epoch"
  /\ UNCHANGED <<gen, X, y, weight, bias, training, grad, exp_avg, exp_avg_sq,
                 step, order, nbatch, inputs, outputs, loss, running_loss,
                 predicted, accuracy, run, history,
                 first_console>>

\* --------------------------------------------------- the evaluation cell
\* mutant: an evaluation cell that instantiates the model anew
ModelEvalReinit ==
  /\ pc = "eval"
  /\ training' = FALSE
  /\ weight' = InitWeight(gen.seed)
  /\ bias' = InitBias(gen.seed)
  /\ pc' = "predict"
  /\ UNCHANGED <<gen, X, y, grad, exp_avg, exp_avg_sq, step, epoch, order,
                 nbatch, inputs, outputs, loss, running_loss, console,
                 predicted, accuracy, run, history, first_console>>

\* model.eval()
ModelEval ==
  /\ pc = "eval"
  /\ training' = FALSE
  /\ pc' = "predict"
  /\ UNCHANGED <<gen, X, y, weight, bias, grad, exp_avg, exp_avg_sq, step,
                 epoch, order, nbatch, inputs, outputs, loss, running_loss,
                 console, predicted, accuracy, run, history,
                 first_console>>

\* predicted = (model(X) > 0.5).float(), under no_grad
Predict ==
  /\ pc = "predict"
  /\ predicted' = [i \in 1..NumSamples |-> Threshold(Forward(i))]
  /\ pc' = "accuracy"
  /\ UNCHANGED <<gen, X, y, weight, bias, training, grad, exp_avg, exp_avg_sq,
                 step, epoch, order, nbatch, inputs, outputs, loss,
                 running_loss, console, accuracy, run, history,
                 first_console>>

\* accuracy = (predicted == y).float().mean()
Accuracy ==
  /\ pc = "accuracy"
  /\ accuracy' = Mean(predicted)
  /\ pc' = "print"
  /\ UNCHANGED <<gen, X, y, weight, bias, training, grad, exp_avg, exp_avg_sq,
                 step, epoch, order, nbatch, inputs, outputs, loss,
                 running_loss, console, predicted, run, history,
                 first_console>>

\* print(f"Accuracy: {accuracy:.4f}")
PrintAccuracy ==
  /\ pc = "print"
  /\ console' = Append(console, [kind |-> "accuracy", epoch |-> 0, of |-> 0,
                                 value |-> Format4(accuracy)])
  /\ pc' = "done"
  /\ UNCHANGED <<gen, X, y, weight, bias, training, grad, exp_avg, exp_avg_sq,
                 step, epoch, order, nbatch, inputs, outputs, loss,
                 running_loss, predicted, accuracy, run, history,
                 first_console>>

Next ==
  \/ ForEpoch
  \/ ForBatch
  \/ ModelForward
  \/ Criterion
  \/ ZeroGrad
  \/ Backward
  \/ OptimizerStep
  \/ AddLoss
  \/ Report
  \/ ModelEval
  \/ Predict
  \/ Accuracy
  \/ PrintAccuracy

Spec == Init /\ [][Next]_vars

\* Every statement's guard is its position alone, so a step of the notebook
\* is enabled exactly when pc is not "done", and every step moves pc.
Labels ==
  {"for_epoch", "for_batch", "forward", "criterion", "zero_grad", "backward",
   "step", "item", "report", "eval", "predict", "accuracy", "print", "done"}

Advance == pc # "done" /\ pc' \in Labels /\ pc' # pc

\* The notebook is one thread, which keeps executing while a statement
\* remains: weak fairness of its advancing.
LiveSpec == Spec /\ WF_pc(Advance)

\* ------------------------------------------------------- a re-execution
\* The notebook is run again from its first cell with the generator seeded
\* as before: the same X and y, a fresh model and optimizer.
Restart ==
  /\ pc = "done"
  /\ run = 1
  /\ run' = 2
  /\ first_console' = console
  /\ gen' = [gen EXCEPT !.offset = DataDraws + ModelDraws]
  /\ weight' = InitWeight(gen.seed)
  /\ bias' = InitBias(gen.seed)
  /\ training' = TRUE
  /\ grad' = <<>>
  /\ exp_avg' = <<0, 0, 0>>
  /\ exp_avg_sq' = <<0, 0, 0>>
  /\ step' = 0
  /\ epoch' = 0
  /\ order' = <<>>
  /\ nbatch' = 0
  /\ inputs' = <<>>
  /\ outputs' = <<>>
  /\ loss' = 0
  /\ running_loss' = 0
  /\ console' = <<>>
  /\ predicted' = <<>>
  /\ accuracy' = 0
  /\ pc' = "for_epoch"
  /\ UNCHANGED <<X, y, history>>

NextRerun ==
  \/ Next
  \/ Restart

SpecRerun == Init /\ [][NextRerun]_vars

\* ================================================================ claims

\* C1: within a mini-batch iteration the statements run in the order
\* forward, loss, zero-gradient, backward, optimizer step; zero_grad leaves
\* no gradient, backward leaves exactly the gradient of the current batch's
\* loss at the current parameters, and that is what every optimizer step
\* consumes (nothing accumulates across batches or epochs).
C1_StepConsumesOnlyCurrentBatchGradient ==
  [][ /\ (pc = "forward" => pc' = "criterion")
      /\ (pc = "criterion" => pc' = "zero_grad")
      /\ (pc = "zero_grad" => pc' = "backward" /\ grad' = <<>>)
      /\ (pc = "backward" => pc' = "step")
      /\ (pc' = "step" =>
            /\ pc = "backward"
            /\ inputs' = [n \in 1..Len(inputs) |->
                            order[(nbatch - 1) * BatchSize + n]]
            /\ grad' = Gradient([n \in 1..Len(inputs) |->
                                   Sigmoid(Linear(inputs[n]))], inputs))
      /\ (step' # step => pc = "step" /\ step' = step + 1 /\ grad # <<>>)
    ]_vars

\* C1 witness: an optimizer step of a later epoch has just been taken
C1_Witness == pc = "item" /\ epoch >= 1 /\ nbatch >= 2 /\ step > NumBatches

\* C2: the console holds one loss line per completed epoch that is a
\* multiple of 10, labelled 10, 20, ... in increasing order; the accuracy
\* line is printed once, last, after all 100 epochs; nothing else is printed.
C2_ConsoleOutput ==
  /\ Len(console) = epoch \div 10 + (IF pc = "done" THEN 1 ELSE 0)
  /\ \A n \in 1..(epoch \div 10) :
        /\ console[n].kind = "loss"
        /\ console[n].epoch = 10 * n
        /\ console[n].of = 100
  /\ pc = "done" =>
        /\ epoch = 100
        /\ Len(console) = 11
        /\ console[11].kind = "accuracy"
        /\ console[11].value = accuracy

\* C2 witness: a complete run has printed its eleven lines
C2_Witness == pc = "done" /\ Len(console) = 11 /\ console[10].epoch = 100

\* C3: in every state, y[i] = 1 if X[i,0] + X[i,1] > 0 and 0 otherwise
C3_LabelIsIndicatorOfPositiveSum ==
  /\ DOMAIN y = 1..NumSamples
  /\ \A i \in 1..NumSamples :
        y[i] = (IF X[i][1] + X[i][2] > 0 THEN 1 ELSE 0)

\* C3 witness: after training, a sample whose features sum to exactly 0
\* carries label 0
C3_Witness ==
  /\ pc = "done"
  /\ step > 0
  /\ \E i \in 1..NumSamples : X[i][1] + X[i][2] = 0 /\ y[i] = 0

\* C4: forward returns one scalar per sample, equal to sigmoid(w.x + b) and
\* inside [0, 1], for the batches of training and, whatever values the
\* parameters have taken, for every sample of the data set
C4_ForwardIsSigmoidInUnitInterval ==
  /\ pc \in {"criterion", "zero_grad", "backward", "step"} =>
        /\ Len(outputs) = Len(inputs)
        /\ \A n \in 1..Len(inputs) :
              /\ outputs[n] = Sigmoid(Linear(inputs[n]))
              /\ 0 <= outputs[n]
              /\ outputs[n] <= Scale
  /\ pc \in {"for_epoch", "item", "predict"} =>
        \A i \in 1..NumSamples :
           /\ 0 <= Sigmoid(Linear(i))
           /\ Sigmoid(Linear(i)) <= Scale

\* C4 witness: a batch's outputs, after some training, on both sides of 1/2
C4_Witness ==
  /\ pc = "criterion"
  /\ step > 0
  /\ \E n \in 1..Len(outputs) : outputs[n] > Half
  /\ \E n \in 1..Len(outputs) : outputs[n] < Half

\* C5: X and y are never modified; weight, bias and the optimizer's state
\* change only in optimizer.step
C5_OnlyOptimizerStepMutatesParameters ==
  [][ /\ X' = X
      /\ y' = y
      /\ (weight' # weight \/ bias' # bias) => pc = "step"
      /\ (exp_avg' # exp_avg \/ exp_avg_sq' # exp_avg_sq \/ step' # step)
            => pc = "step"
    ]_vars

\* C5 witness: the evaluation has run and the parameters are those the last
\* optimizer step left, different from the initial ones
C5_Witness ==
  /\ pc = "done"
  /\ history # <<>>
  /\ Params = history[Len(history)]
  /\ Params # <<InitWeight(gen.seed)[1], InitWeight(gen.seed)[2],
                InitBias(gen.seed)>>

C7_ReportedLossNonIncreasing ==
  \A i, j \in 1..Len(console) :
     (i < j /\ console[i].kind = "loss" /\ console[j].kind = "loss")
        => console[j].value <= console[i].value

\* C7 amended: over the whole run the reported loss has decreased, the last
\* report (epoch 100) being lower than the first (epoch 10)
C7_LastReportBelowFirst ==
  pc = "done" => console[10].value < console[1].value

\* C7 witness: a finished run where a later report exceeds an earlier one
C7_Witness ==
  /\ pc = "done"
  /\ \E n \in 1..9 : console[n + 1].value > console[n].value

C9_TrainingTerminatesAfterFullEpochs ==
  /\ [](/\ pc \in {"for_batch", "forward", "criterion", "zero_grad",
                   "backward", "step", "item", "report"} =>
              /\ epoch < 100
              /\ Len(order) = 100
              /\ {order[r] : r \in 1..100} = 1..100
        /\ pc \in {"forward", "criterion", "zero_grad", "backward", "step"} =>
              /\ nbatch \in 1..4
              /\ inputs = [n \in 1..(IF nbatch <= 3 THEN 32 ELSE 4) |->
                              order[32 * (nbatch - 1) + n]]
              /\ step = 4 * epoch + nbatch - 1
        /\ pc = "item" => step = 4 * epoch + nbatch
        /\ pc = "report" => nbatch = 4 /\ step = 4 * (epoch + 1)
        /\ pc \in {"eval", "predict", "accuracy", "print", "done"} =>
              epoch = 100 /\ step = 400)
  /\ <>(pc = "done" /\ epoch = 100 /\ step = 400)

\* C9 witness: the last batch of an epoch, of 4 samples, is being processed
C9_Witness == pc = "step" /\ nbatch = 4 /\ Len(inputs) = 4 /\ epoch = 99

\* C10: predicted[i] = 1 exactly when the output for sample i is strictly
\* above 0.5, under the parameters the last optimizer step left; accuracy
\* is the number of samples with predicted[i] = y[i] over 100, a multiple
\* of 0.01 in [0, 1], and is what is printed
C10_AccuracyIsFractionOfCorrectThresholdedOutputs ==
  /\ pc \in {"accuracy", "print", "done"} =>
        /\ step = 400
        /\ run = 1 => Params = history[400]
        /\ DOMAIN predicted = 1..100
        /\ \A i \in 1..100 :
              predicted[i] = (IF Sigmoid(Linear(i)) > Half THEN 1 ELSE 0)
  /\ pc \in {"print", "done"} =>
        /\ 100 * accuracy
             = Scale * Cardinality({i \in 1..100 : predicted[i] = y[i]})
        /\ accuracy % (Scale \div 100) = 0
        /\ 0 <= accuracy
        /\ accuracy <= Scale
  /\ pc = "done" => console[Len(console)].value = accuracy

\* C10 witness: a finished run in which a sample's output is exactly 0.5
\* and is classified 0
C10_Witness ==
  /\ pc = "done"
  /\ \E i \in 1..100 : Sigmoid(Linear(i)) = Half /\ predicted[i] = 0

====
